---- MODULE Spec2Model ----
(***************************************************************************)
(* Model of the padel-retas standings engine and match card:               *)
(*   src/src/components/RealTimeStandingsTable.tsx  (standings table)      *)
(*   src/src/components/MatchCardWithResults.tsx    (match card)           *)
(* The data-access layer (lib/database) and MatchResultCalculator are not  *)
(* part of the sources; their effects are modelled from the specification. *)
(***************************************************************************)
EXTENDS Integers, Sequences, FiniteSets, TLC

\* ------------------------------------------------------------------ bounds
\* Largest score value drawn for a stored game field.
MaxScore == 7
\* Largest number of games of the first match in the drawn data sets.
MaxGames == 3
\* Number of games the match card may create in one run.
MaxGameId == 2
\* Largest number of games of a match in the data sets drawn for the ranking.
MaxRankGames == 1
\* largest number of games of the first match in the order data sets
MaxOrderGames == 2
\* Number of failing calls of the data-access layer in one run.
MaxFaults == 1
\* largest number of loadTournamentData runs that overlap
MaxRuns == 2
\* largest number of delayed onCorrectScore calls that are pending
MaxTimers == 2
\* handler runs of the cards in flight at once (handlers taken step by step)
MaxCalls == 2
\* mutations persisted by the handlers taken step by step
MaxMutations == 2
\* setTimeout callbacks pending at once (handlers taken step by step)
MaxScheduled == 4

\* --------------------------------------------------------- value encodings
\* A nullable value is <<>> (JS null) or <<v>>.
Null == <<>>
Some(v) == <<v>>
\* A JS number that may be NaN: <<>> is NaN, <<n>> is n.
NaN == <<>>

\* Number(x) of a nullable number as JS relational operators see it: null -> 0.
ToNumber(x) == IF x = Null THEN 0 ELSE x[1]
\* x || 0 for a nullable number (null and 0 both give 0).
OrZero(x) == IF x = Null THEN 0 ELSE x[1]

\* --------------------------------------------------------------- strings
\* A string is a sequence of collation weights; "/" sorts before letters.
Slash == 0

RECURSIVE LexCompare(_, _, _)
LexCompare(s, t, i) ==
  IF i > Len(s) /\ i > Len(t) THEN 0
  ELSE IF i > Len(s) THEN 0 - 1
  ELSE IF i > Len(t) THEN 1
  ELSE IF s[i] < t[i] THEN 0 - 1
  ELSE IF s[i] > t[i] THEN 1
  ELSE LexCompare(s, t, i + 1)

\* String.prototype.localeCompare: negative, zero or positive.
localeCompare(s, t) == LexCompare(s, t, 1)

\* `${p.player1_name}/${p.player2_name}`
displayName(p) == p.player1_name \o <<Slash>> \o p.player2_name

\* ------------------------------------------------------ calculateMatchStats
ZeroMatchStats ==
  [pair1GamesWon |-> 0, pair2GamesWon |-> 0,
   pair1SetsWon |-> 0, pair2SetsWon |-> 0,
   pair1TotalPoints |-> 0, pair2TotalPoints |-> 0]

\* Variant: in a normal game only the winning side can earn the set credit.
accumulateGameWinnerSet(acc, game) ==
  IF game.is_tie_break
  THEN LET t1 == ToNumber(game.tie_break_pair1_points)
           t2 == ToNumber(game.tie_break_pair2_points)
       IN [acc EXCEPT
             !.pair1GamesWon = IF t1 > t2 THEN @ + 1 ELSE @,
             !.pair2GamesWon = IF ~(t1 > t2) /\ t2 > t1 THEN @ + 1 ELSE @,
             !.pair1TotalPoints = @ + OrZero(game.tie_break_pair1_points),
             !.pair2TotalPoints = @ + OrZero(game.tie_break_pair2_points)]
  ELSE [acc EXCEPT
          !.pair1GamesWon = IF game.pair1_games > game.pair2_games THEN @ + 1 ELSE @,
          !.pair2GamesWon = IF ~(game.pair1_games > game.pair2_games)
                               /\ game.pair2_games > game.pair1_games
                            THEN @ + 1 ELSE @,
          !.pair1TotalPoints = @ + game.pair1_games,
          !.pair2TotalPoints = @ + game.pair2_games,
          !.pair1SetsWon = IF game.pair1_games >= 6 /\ game.pair1_games > game.pair2_games
                           THEN @ + 1 ELSE @,
          !.pair2SetsWon = IF game.pair2_games >= 6 /\ game.pair2_games > game.pair1_games
                           THEN @ + 1 ELSE @]

\* Variant: the tie-break flag is ignored and every game is scored as a normal one.
accumulateGameNoTieBreak(acc, game) ==
  [acc EXCEPT
     !.pair1GamesWon = IF game.pair1_games > game.pair2_games THEN @ + 1 ELSE @,
     !.pair2GamesWon = IF ~(game.pair1_games > game.pair2_games)
                          /\ game.pair2_games > game.pair1_games
                       THEN @ + 1 ELSE @,
     !.pair1TotalPoints = @ + game.pair1_games,
     !.pair2TotalPoints = @ + game.pair2_games,
     !.pair1SetsWon = IF game.pair1_games >= 6 THEN @ + 1 ELSE @,
     !.pair2SetsWon = IF game.pair2_games >= 6 THEN @ + 1 ELSE @]

\* Variant: the points of a normal game are assigned, not added.
accumulateGameAssignsPoints(acc, game) ==
  IF game.is_tie_break
  THEN LET t1 == ToNumber(game.tie_break_pair1_points)
           t2 == ToNumber(game.tie_break_pair2_points)
       IN [acc EXCEPT
             !.pair1GamesWon = IF t1 > t2 THEN @ + 1 ELSE @,
             !.pair2GamesWon = IF ~(t1 > t2) /\ t2 > t1 THEN @ + 1 ELSE @,
             !.pair1TotalPoints = @ + OrZero(game.tie_break_pair1_points),
             !.pair2TotalPoints = @ + OrZero(game.tie_break_pair2_points)]
  ELSE [acc EXCEPT
          !.pair1GamesWon = IF game.pair1_games > game.pair2_games THEN @ + 1 ELSE @,
          !.pair2GamesWon = IF ~(game.pair1_games > game.pair2_games)
                               /\ game.pair2_games > game.pair1_games
                            THEN @ + 1 ELSE @,
          !.pair1TotalPoints = game.pair1_games,
          !.pair2TotalPoints = game.pair2_games,
          !.pair1SetsWon = IF game.pair1_games >= 6 THEN @ + 1 ELSE @,
          !.pair2SetsWon = IF game.pair2_games >= 6 THEN @ + 1 ELSE @]

\* Variant: a game with equal scores is a game won for both sides.
accumulateGameTieWonByBoth(acc, game) ==
  IF game.is_tie_break
  THEN LET t1 == ToNumber(game.tie_break_pair1_points)
           t2 == ToNumber(game.tie_break_pair2_points)
       IN [acc EXCEPT
             !.pair1GamesWon = IF t1 >= t2 THEN @ + 1 ELSE @,
             !.pair2GamesWon = IF t2 >= t1 THEN @ + 1 ELSE @,
             !.pair1TotalPoints = @ + OrZero(game.tie_break_pair1_points),
             !.pair2TotalPoints = @ + OrZero(game.tie_break_pair2_points)]
  ELSE [acc EXCEPT
          !.pair1GamesWon = IF game.pair1_games >= game.pair2_games THEN @ + 1 ELSE @,
          !.pair2GamesWon = IF game.pair2_games >= game.pair1_games THEN @ + 1 ELSE @,
          !.pair1TotalPoints = @ + game.pair1_games,
          !.pair2TotalPoints = @ + game.pair2_games,
          !.pair1SetsWon = IF game.pair1_games >= 6 THEN @ + 1 ELSE @,
          !.pair2SetsWon = IF game.pair2_games >= 6 THEN @ + 1 ELSE @]

\* The body of games.forEach: one game folded into the running totals.
accumulateGame(acc, game) ==
  IF game.is_tie_break
  THEN LET t1 == ToNumber(game.tie_break_pair1_points)
           t2 == ToNumber(game.tie_break_pair2_points)
       IN [acc EXCEPT
             !.pair1GamesWon = IF t1 > t2 THEN @ + 1 ELSE @,
             !.pair2GamesWon = IF ~(t1 > t2) /\ t2 > t1 THEN @ + 1 ELSE @,
             !.pair1TotalPoints = @ + OrZero(game.tie_break_pair1_points),
             !.pair2TotalPoints = @ + OrZero(game.tie_break_pair2_points)]
  ELSE [acc EXCEPT
          !.pair1GamesWon = IF game.pair1_games > game.pair2_games THEN @ + 1 ELSE @,
          !.pair2GamesWon = IF ~(game.pair1_games > game.pair2_games)
                               /\ game.pair2_games > game.pair1_games
                            THEN @ + 1 ELSE @,
          !.pair1TotalPoints = @ + game.pair1_games,
          !.pair2TotalPoints = @ + game.pair2_games,
          !.pair1SetsWon = IF game.pair1_games >= 6 THEN @ + 1 ELSE @,
          !.pair2SetsWon = IF game.pair2_games >= 6 THEN @ + 1 ELSE @]

RECURSIVE forEachGame(_, _, _)
forEachGame(games, i, acc) ==
  IF i > Len(games) THEN acc
  ELSE forEachGame(games, i + 1, accumulateGame(acc, games[i]))

\* Variant: the fold starts at the second game.
calculateMatchStatsFromSecond(match, games) == forEachGame(games, 2, ZeroMatchStats)

calculateMatchStats(match, games) == forEachGame(games, 1, ZeroMatchStats)

\* ----------------------------------------------------------- pairsWithStats
ZeroStats == [gamesWon |-> 0, setsWon |-> 0, points |-> 0, matchesPlayed |-> 0]

\* {...pair, ...stats}
withStats(pair, stats) ==
  [id |-> pair.id, player1_name |-> pair.player1_name,
   player2_name |-> pair.player2_name,
   gamesWon |-> stats.gamesWon, setsWon |-> stats.setsWon,
   points |-> stats.points, matchesPlayed |-> stats.matchesPlayed]

pairIds(pairs) == {pairs[i].id : i \in DOMAIN pairs}

\* allGames.filter((game) => game.match_id === match.id)
matchGamesOf(allGames, match) ==
  SelectSeq(allGames, LAMBDA g : g.match_id = match.id)

\* Variant: the status of the match is not looked at.
accumulateMatchAnyStatus(pairStats, match, allGames) ==
  LET matchGames == matchGamesOf(allGames, match)
  IN IF ~(Len(matchGames) > 0) THEN pairStats
     ELSE LET matchStats == calculateMatchStats(match, matchGames)
          IN IF ~(match.pair1_id \in DOMAIN pairStats
                  /\ match.pair2_id \in DOMAIN pairStats)
             THEN pairStats
             ELSE [pairStats EXCEPT
                     ![match.pair1_id] =
                        [gamesWon |-> @.gamesWon + matchStats.pair1GamesWon,
                         setsWon |-> @.setsWon + matchStats.pair1SetsWon,
                         points |-> @.points + matchStats.pair1TotalPoints,
                         matchesPlayed |-> @.matchesPlayed + 1],
                     ![match.pair2_id] =
                        [gamesWon |-> @.gamesWon + matchStats.pair2GamesWon,
                         setsWon |-> @.setsWon + matchStats.pair2SetsWon,
                         points |-> @.points + matchStats.pair2TotalPoints,
                         matchesPlayed |-> @.matchesPlayed + 1]]

\* Variant: matchesPlayed is incremented for the first pair only.
accumulateMatchOneSide(pairStats, match, allGames) ==
  IF match.status # "finished" THEN pairStats
  ELSE LET matchGames == matchGamesOf(allGames, match)
       IN IF ~(Len(matchGames) > 0) THEN pairStats
          ELSE LET matchStats == calculateMatchStats(match, matchGames)
               IN IF ~(match.pair1_id \in DOMAIN pairStats
                       /\ match.pair2_id \in DOMAIN pairStats)
                  THEN pairStats
                  ELSE [pairStats EXCEPT
                          ![match.pair1_id] =
                             [gamesWon |-> @.gamesWon + matchStats.pair1GamesWon,
                              setsWon |-> @.setsWon + matchStats.pair1SetsWon,
                              points |-> @.points + matchStats.pair1TotalPoints,
                              matchesPlayed |-> @.matchesPlayed + 1],
                          ![match.pair2_id] =
                             [gamesWon |-> @.gamesWon + matchStats.pair2GamesWon,
                              setsWon |-> @.setsWon + matchStats.pair2SetsWon,
                              points |-> @.points + matchStats.pair2TotalPoints,
                              matchesPlayed |-> @.matchesPlayed]]

\* Variant: a finished match without games is counted as played.
accumulateMatchCountsEmpty(pairStats, match, allGames) ==
  IF match.status # "finished" THEN pairStats
  ELSE LET matchGames == matchGamesOf(allGames, match)
           matchStats == calculateMatchStats(match, matchGames)
       IN IF ~(match.pair1_id \in DOMAIN pairStats
               /\ match.pair2_id \in DOMAIN pairStats)
          THEN pairStats
          ELSE [pairStats EXCEPT
                  ![match.pair1_id] =
                     [gamesWon |-> @.gamesWon + matchStats.pair1GamesWon,
                      setsWon |-> @.setsWon + matchStats.pair1SetsWon,
                      points |-> @.points + matchStats.pair1TotalPoints,
                      matchesPlayed |-> @.matchesPlayed + 1],
                  ![match.pair2_id] =
                     [gamesWon |-> @.gamesWon + matchStats.pair2GamesWon,
                      setsWon |-> @.setsWon + matchStats.pair2SetsWon,
                      points |-> @.points + matchStats.pair2TotalPoints,
                      matchesPlayed |-> @.matchesPlayed + 1]]

\* Variant: each pair of the match that is in the map is updated, whether or
\* not the other one is.
accumulateMatchPresentSide(pairStats, match, allGames) ==
  IF match.status # "finished" THEN pairStats
  ELSE LET matchGames == matchGamesOf(allGames, match)
       IN IF ~(Len(matchGames) > 0) THEN pairStats
          ELSE LET matchStats == calculateMatchStats(match, matchGames)
                   after1 ==
                     IF match.pair1_id \in DOMAIN pairStats
                     THEN [pairStats EXCEPT
                             ![match.pair1_id] =
                                [gamesWon |-> @.gamesWon + matchStats.pair1GamesWon,
                                 setsWon |-> @.setsWon + matchStats.pair1SetsWon,
                                 points |-> @.points + matchStats.pair1TotalPoints,
                                 matchesPlayed |-> @.matchesPlayed + 1]]
                     ELSE pairStats
               IN IF match.pair2_id \in DOMAIN pairStats
                  THEN [after1 EXCEPT
                          ![match.pair2_id] =
                             [gamesWon |-> @.gamesWon + matchStats.pair2GamesWon,
                              setsWon |-> @.setsWon + matchStats.pair2SetsWon,
                              points |-> @.points + matchStats.pair2TotalPoints,
                              matchesPlayed |-> @.matchesPlayed + 1]]
                  ELSE after1

\* The body of matches.forEach: one match folded into the pairStats map.
\* The two map entries are objects updated in place, one after the other.
accumulateMatch(pairStats, match, allGames) ==
  IF match.status # "finished" THEN pairStats
  ELSE LET matchGames == matchGamesOf(allGames, match)
       IN IF ~(Len(matchGames) > 0) THEN pairStats
          ELSE LET matchStats == calculateMatchStats(match, matchGames)
               IN IF ~(match.pair1_id \in DOMAIN pairStats
                       /\ match.pair2_id \in DOMAIN pairStats)
                  THEN pairStats
                  ELSE LET s1 == [pairStats EXCEPT
                                    ![match.pair1_id].matchesPlayed = @ + 1]
                           s2 == [s1 EXCEPT
                                    ![match.pair2_id].matchesPlayed = @ + 1]
                           s3 == [s2 EXCEPT
                                    ![match.pair1_id].gamesWon = @ + matchStats.pair1GamesWon,
                                    ![match.pair1_id].setsWon = @ + matchStats.pair1SetsWon,
                                    ![match.pair1_id].points = @ + matchStats.pair1TotalPoints]
                       IN [s3 EXCEPT
                             ![match.pair2_id].gamesWon = @ + matchStats.pair2GamesWon,
                             ![match.pair2_id].setsWon = @ + matchStats.pair2SetsWon,
                             ![match.pair2_id].points = @ + matchStats.pair2TotalPoints]

RECURSIVE forEachMatch(_, _, _, _)
forEachMatch(matchList, i, pairStats, allGames) ==
  IF i > Len(matchList) THEN pairStats
  ELSE forEachMatch(matchList, i + 1,
                    accumulateMatch(pairStats, matchList[i], allGames), allGames)

\* Variant: the early return for an empty match list returns no rows.
pairsWithStatsNoRowsWithoutMatches(pairList, matchList, allGames) ==
  IF Len(pairList) = 0 \/ Len(matchList) = 0
  THEN <<>>
  ELSE LET init == [id \in pairIds(pairList) |-> ZeroStats]
           pairStats == forEachMatch(matchList, 1, init, allGames)
       IN [i \in DOMAIN pairList |-> withStats(pairList[i], pairStats[pairList[i].id])]

pairsWithStats(pairList, matchList, allGames) ==
  IF Len(pairList) = 0 \/ Len(matchList) = 0
  THEN [i \in DOMAIN pairList |-> withStats(pairList[i], ZeroStats)]
  ELSE LET init == [id \in pairIds(pairList) |-> ZeroStats]
           pairStats == forEachMatch(matchList, 1, init, allGames)
       IN [i \in DOMAIN pairList |-> withStats(pairList[i], pairStats[pairList[i].id])]

\* -------------------------------------------------------------- sortedPairs
\* Variant: games won are compared before sets won.
compareRowsGamesBeforeSets(a, b) ==
  IF b.points # a.points THEN b.points - a.points
  ELSE IF b.gamesWon # a.gamesWon THEN b.gamesWon - a.gamesWon
  ELSE IF b.setsWon # a.setsWon THEN b.setsWon - a.setsWon
  ELSE localeCompare(displayName(a), displayName(b))

\* The comparator handed to Array.prototype.sort.
compareRows(a, b) ==
  IF b.points # a.points THEN b.points - a.points
  ELSE IF b.setsWon # a.setsWon THEN b.setsWon - a.setsWon
  ELSE IF b.gamesWon # a.gamesWon THEN b.gamesWon - a.gamesWon
  ELSE localeCompare(displayName(a), displayName(b))

\* Array.prototype.sort is stable: x goes after every element it does not
\* precede under the comparator.
RECURSIVE insertSorted(_, _, _)
insertSorted(sorted, x, i) ==
  IF i > Len(sorted) THEN Append(sorted, x)
  ELSE IF compareRows(x, sorted[i]) < 0
       THEN SubSeq(sorted, 1, i - 1) \o <<x>> \o SubSeq(sorted, i, Len(sorted))
       ELSE insertSorted(sorted, x, i + 1)

RECURSIVE sortFrom(_, _, _)
sortFrom(rows, i, sorted) ==
  IF i > Len(rows) THEN sorted
  ELSE sortFrom(rows, i + 1, insertSorted(sorted, rows[i], 1))

sortedPairs(rows) == sortFrom(rows, 1, <<>>)

\* ----------------------------------------------------------- getMatchWinner
RECURSIVE countWins(_, _, _)
countWins(games, i, acc) ==
  IF i > Len(games) THEN acc
  ELSE countWins(games, i + 1,
         IF games[i].pair1_games > games[i].pair2_games
         THEN [acc EXCEPT !.pair1Wins = @ + 1]
         ELSE IF games[i].pair2_games > games[i].pair1_games
              THEN [acc EXCEPT !.pair2Wins = @ + 1]
              ELSE acc)

\* null when there are no games, else {winner, pair1Wins, pair2Wins}.
getMatchWinner(games) ==
  IF Len(games) = 0 THEN Null
  ELSE LET w == countWins(games, 1, [pair1Wins |-> 0, pair2Wins |-> 0])
       IN Some([winner |-> IF w.pair1Wins > w.pair2Wins THEN "pair1"
                           ELSE IF w.pair2Wins > w.pair1Wins THEN "pair2"
                           ELSE "tie",
                pair1Wins |-> w.pair1Wins, pair2Wins |-> w.pair2Wins])

\* The type of the winner label: null, "winner" (with the pair) or "tie".
getWinnerLabel(games) ==
  LET result == getMatchWinner(games)
  IN IF result = Null THEN "none"
     ELSE result[1].winner

\* ------------------------------------------------------------------ parseInt
Digits == <<"0", "1", "2", "3", "4", "5", "6", "7", "8", "9">>
isDigit(c) == \E d \in 1..10 : Digits[d] = c
digitVal(c) == (CHOOSE d \in 1..10 : Digits[d] = c) - 1

RECURSIVE skipSpaces(_, _)
skipSpaces(s, i) ==
  IF i <= Len(s) /\ s[i] = " " THEN skipSpaces(s, i + 1) ELSE i

RECURSIVE readDigits(_, _, _, _)
readDigits(s, i, n, any) ==
  IF i <= Len(s) /\ isDigit(s[i])
  THEN readDigits(s, i + 1, 10 * n + digitVal(s[i]), TRUE)
  ELSE [value |-> n, any |-> any]

\* parseInt(text): leading blanks, an optional sign, then decimal digits up to
\* the first other character; NaN when there is no digit.
parseInt(s) ==
  LET i == skipSpaces(s, 1)
      neg == i <= Len(s) /\ s[i] = "-"
      j == IF i <= Len(s) /\ (s[i] = "-" \/ s[i] = "+") THEN i + 1 ELSE i
      r == readDigits(s, j, 0, FALSE)
  IN IF ~r.any THEN NaN
     ELSE IF neg THEN Some(0 - r.value) ELSE Some(r.value)

isNaN(x) == x = NaN

\* ------------------------------------------------------------------- state
VARIABLES
  dbPairs,        \* rows of the pairs table, as getPairs returns them
  dbMatches,      \* rows of the matches table, as getMatches returns them
  dbGames,        \* rows of the games table
  gameSeq,        \* number of game rows created so far (source of fresh ids)
  pairs,          \* RealTimeStandingsTable: useState pairs
  matches,        \* RealTimeStandingsTable: useState matches
  allGames,       \* RealTimeStandingsTable: useState allGames
  error,          \* RealTimeStandingsTable: useState error
  loading,        \* RealTimeStandingsTable: useState loading
  runs,           \* the loadTournamentData runs since the table was last idle
  shown,          \* which run set pairs and matches, and which set allGames
  cards,          \* MatchCardWithResults, one per match: currentMatch, games, error
  effectPending,  \* the table's useEffect is due: mount, or onCorrectScore was called
  timers,         \* number of setTimeout callbacks of forceUpdateTable not yet run
  cardLoading,    \* MatchCardWithResults, one per match: useState loading
  calls,          \* the handler runs of the cards that are in flight
  scheduled,      \* the pending setTimeout callbacks, each with its match snapshot
  persisted,      \* history: number of mutations the runs in calls have persisted
  delivered,      \* history: the last and the freshest snapshot onCorrectScore got
  faults,         \* number of data-access calls that have failed so far
  hist            \* history: the running finish/reopen sequence on one match

vars == <<dbPairs, dbMatches, dbGames, gameSeq, pairs, matches, allGames, error,
          loading, runs, shown, cards, effectPending, timers, cardLoading, calls,
          scheduled, persisted, delivered, faults, hist>>

dbVars == <<dbPairs, dbMatches, dbGames, gameSeq>>
loadVars == <<loading, runs, shown>>
tableVars == <<pairs, matches, allGames, error, loadVars>>
stepVars == <<cardLoading, calls, scheduled, persisted, delivered>>

\* ------------------------------------------------------------ fixed data
MatchIds == {"m1", "m2"}

Pair(id, n1, n2) == [id |-> id, player1_name |-> n1, player2_name |-> n2]
\* P1 and P2 carry the same display name "a/b"; P3 is "ab/a".
P1 == Pair("P1", <<1>>, <<2>>)
P2 == Pair("P2", <<1>>, <<2>>)
P3 == Pair("P3", <<1, 2>>, <<1>>)

Match(id, p1, p2, st) == [id |-> id, pair1_id |-> p1, pair2_id |-> p2, status |-> st]
Statuses == {"in_progress", "finished"}

Game(id, mid, num, tb, g1, g2, t1, t2) ==
  [id |-> id, match_id |-> mid, game_number |-> num, is_tie_break |-> tb,
   pair1_games |-> g1, pair2_games |-> g2,
   tie_break_pair1_points |-> t1, tie_break_pair2_points |-> t2]

\* ------------------------------------------------- data-access collaborator
\* getGames(matchId) over a games table.
getGames(gamesTable, mid) == SelectSeq(gamesTable, LAMBDA g : g.match_id = mid)

\* createGame(matchId, gameNumber): a new row with a fresh id and unset scores.
createGame(gamesTable, seq, mid, num) ==
  Append(gamesTable, Game(seq + 1, mid, num, FALSE, 0, 0, Null, Null))

\* updateGame(id, fields)
updateGame(gamesTable, id, g1, g2) ==
  [i \in DOMAIN gamesTable |->
     IF gamesTable[i].id = id
     THEN [gamesTable[i] EXCEPT !.pair1_games = g1, !.pair2_games = g2,
                                !.is_tie_break = FALSE,
                                !.tie_break_pair1_points = Some(0),
                                !.tie_break_pair2_points = Some(0)]
     ELSE gamesTable[i]]

\* deleteGame(id)
deleteGame(gamesTable, id) == SelectSeq(gamesTable, LAMBDA g : g.id # id)

\* updateMatch(id, {is_finished}): the match row's status follows is_finished.
updateMatch(matchTable, id, isFinished) ==
  [i \in DOMAIN matchTable |->
     IF matchTable[i].id = id
     THEN [matchTable[i] EXCEPT !.status = IF isFinished THEN "finished" ELSE "in_progress"]
     ELSE matchTable[i]]

\* currentMatch.is_finished
isFinished(match) == match.status = "finished"

\* gamesArrays.flat(): getGames of every match, in the order of the matches.
RECURSIVE flatGames(_, _, _)
flatGames(matchList, gamesTable, i) ==
  IF i > Len(matchList) THEN <<>>
  ELSE getGames(gamesTable, matchList[i].id) \o flatGames(matchList, gamesTable, i + 1)

\* ------------------------------------------------------------ match card
NewCard == [currentMatch |-> Null, games |-> <<>>, error |-> ""]

\* How the three fetches of loadData may end.
LoadOutcomes == {"ok", "failMatches", "failLater"}

\* loadData of the card of match mid, against the given tables.
loadData(c, mid, matchTable, gamesTable, outcome) ==
  LET found == SelectSeq(matchTable, LAMBDA m : m.id = mid)
  IN IF outcome = "failMatches" \/ Len(found) = 0
     THEN [c EXCEPT !.error = "Error cargando datos"]
     ELSE IF outcome = "failLater"
          THEN [c EXCEPT !.currentMatch = Some(found[1]),
                         !.error = "Error cargando datos"]
          ELSE [currentMatch |-> Some(found[1]),
                games |-> getGames(gamesTable, mid),
                error |-> ""]

\* forceUpdateTable: TRUE iff onCorrectScore is called (at once, and again
\* after 100 ms and 300 ms, with the same match snapshot).
forceUpdateTable(mid, matchTable, fetchOk) ==
  fetchOk /\ \E i \in DOMAIN matchTable : matchTable[i].id = mid

\* Texts typed into the two score inputs: "6" and "4", or "6" and nothing.
ScoreEntries == {<< <<"6">>, <<"4">> >>, << <<"6">>, <<>> >>}

\* ------------------------------------------------------------ standings
\* The standings a complete load of the given tables computes.
standingsOf(pairTable, matchTable, gamesTable) ==
  pairsWithStats(pairTable, matchTable, flatGames(matchTable, gamesTable, 1))

statusOf(matchTable, mid) ==
  LET found == SelectSeq(matchTable, LAMBDA m : m.id = mid)
  IN IF Len(found) = 0 THEN "absent" ELSE found[1].status

\* ------------------------------------------------------------ snapshots
\* A match row as getMatches returned it, with the number of mutations that
\* were persisted when it was requested.
Snapshot(row, n) == [match |-> row, after |-> n]
NoSnapshot == Snapshot(Null, 0)

\* Nothing has been passed to onCorrectScore yet.
NothingDelivered == [last |-> NoSnapshot, newest |-> NoSnapshot]

\* ------------------------------------------------------------ history
\* The finishMatch / reopenMatch calls that reached updateMatch since the games
\* last changed: the match, the last three calls, and, when the run of calls
\* began by finishing a match in progress, the standings before and after it.
NoHist == [match |-> "", ops |-> <<>>, based |-> FALSE, pre |-> <<>>, post |-> <<>>]

lastOp(h) == IF Len(h.ops) = 0 THEN "none" ELSE h.ops[Len(h.ops)]

lastThree(q) == IF Len(q) > 3 THEN SubSeq(q, Len(q) - 2, Len(q)) ELSE q

\* The history after updateMatch(mid, fin) took matchTable to matchTable2.
histAfterUpdate(h, mid, fin, matchTable, matchTable2) ==
  LET op == IF fin THEN "finish" ELSE "reopen"
  IN IF h.match = mid /\ h.based
     THEN [h EXCEPT !.ops = lastThree(Append(@, op))]
     ELSE IF fin /\ statusOf(matchTable, mid) = "in_progress"
          THEN [match |-> mid, ops |-> <<op>>, based |-> TRUE,
                pre |-> standingsOf(dbPairs, matchTable, dbGames),
                post |-> standingsOf(dbPairs, matchTable2, dbGames)]
          ELSE [match |-> mid, ops |-> <<op>>, based |-> FALSE,
                pre |-> <<>>, post |-> <<>>]

\* ------------------------------------------------------------ faults
loadCost(lo) == IF lo = "ok" THEN 0 ELSE 1
callCost(ok) == IF ok THEN 0 ELSE 1

\* k more calls of the data-access layer fail in this step.
Fail(k) ==
  /\ faults + k <= MaxFaults
  /\ faults' = faults + k

\* ------------------------------------------------------------ card actions
\* The finally block of a handler of the card of match mid: setLoading(false).
handlerEnds(mid) ==
  /\ cardLoading' = [cardLoading EXCEPT ![mid] = FALSE]
  /\ UNCHANGED <<calls, scheduled, persisted, delivered>>

\* The two setTimeout calls of forceUpdateTable (100 ms and 300 ms).
DelayedCalls == 2

\* What forceUpdateTable does when it has found the match: onCorrectScore at
\* once, and DelayedCalls callbacks scheduled; nothing otherwise.
onCorrectScoreCalls(found) ==
  IF found
  THEN /\ timers + DelayedCalls <= MaxTimers
       /\ timers' = timers + DelayedCalls
       /\ effectPending' = TRUE
  ELSE UNCHANGED <<effectPending, timers>>

\* A setTimeout callback of forceUpdateTable runs: onCorrectScore(updatedMatch).
onCorrectScoreDelayed ==
  /\ timers > 0
  /\ timers' = timers - 1
  /\ effectPending' = TRUE
  /\ UNCHANGED <<dbVars, tableVars, cards, stepVars, faults, hist>>

\* useEffect on mount / forceRefresh, and the refresh button: loadData().
CardLoadData(mid) ==
  /\ \E lo \in LoadOutcomes :
       /\ Fail(loadCost(lo))
       /\ cards' = [cards EXCEPT ![mid] = loadData(@, mid, dbMatches, dbGames, lo)]
  /\ handlerEnds(mid)
  /\ UNCHANGED <<dbVars, tableVars, effectPending, timers, hist>>

\* addGame with the texts entry[1] and entry[2] in the two score inputs.
addGameWith(mid, entry) ==
  /\ cards[mid].currentMatch # Null
  /\ LET score1 == parseInt(entry[1])
         score2 == parseInt(entry[2])
     IN IF isNaN(score1) \/ isNaN(score2)
          THEN /\ cards' = [cards EXCEPT ![mid].error = "Ingresa puntuaciones validas"]
               /\ UNCHANGED <<dbVars, tableVars, effectPending, timers, stepVars,
                               faults, hist>>
          ELSE \E created \in BOOLEAN, updated \in BOOLEAN,
                  lo \in LoadOutcomes, fo \in BOOLEAN :
               LET gameNumber == Len(cards[mid].games) + 1
                   g1 == createGame(dbGames, gameSeq, cards[mid].currentMatch[1].id, gameNumber)
                   g2 == updateGame(g1, gameSeq + 1, score1[1], score2[1])
               IN /\ gameSeq < MaxGameId
                  /\ handlerEnds(mid)
                  /\ UNCHANGED <<dbPairs, dbMatches, tableVars>>
                  /\ IF ~created
                     THEN /\ Fail(1)
                          /\ cards' = [cards EXCEPT ![mid].error = "Error al agregar juego"]
                          /\ UNCHANGED <<dbGames, gameSeq, effectPending, timers, hist>>
                     ELSE IF ~updated
                     THEN /\ Fail(1)
                          /\ dbGames' = g1
                          /\ gameSeq' = gameSeq + 1
                          /\ cards' = [cards EXCEPT ![mid].error = "Error al agregar juego"]
                          /\ hist' = NoHist
                          /\ UNCHANGED <<effectPending, timers>>
                     ELSE /\ Fail(loadCost(lo) + callCost(fo))
                          /\ dbGames' = g2
                          /\ gameSeq' = gameSeq + 1
                          /\ cards' = [cards EXCEPT ![mid] = loadData(@, mid, dbMatches, g2, lo)]
                          /\ onCorrectScoreCalls(forceUpdateTable(mid, dbMatches, fo))
                          /\ hist' = NoHist

AddGame(mid) == \E entry \in ScoreEntries : addGameWith(mid, entry)

\* Texts the number inputs (min 0, max 7) accept from the keyboard: "9" and
\* "4", "-1" and "6", "7" and "5", "6" and nothing.
TypedEntries ==
  {<< <<"9">>, <<"4">> >>, << <<"-", "1">>, <<"6">> >>,
   << <<"7">>, <<"5">> >>, << <<"6">>, <<>> >>}

\* addGame with any of these texts typed.
AddGameTyped(mid) == \E entry \in TypedEntries : addGameWith(mid, entry)

RemoveGame(mid) ==
  /\ cards[mid].currentMatch # Null
  /\ \E k \in DOMAIN cards[mid].games, deleted \in BOOLEAN,
        lo \in LoadOutcomes, fo \in BOOLEAN :
       LET gameId == cards[mid].games[k].id
           g1 == deleteGame(dbGames, gameId)
       IN /\ UNCHANGED <<dbPairs, dbMatches, gameSeq, tableVars>>
          /\ handlerEnds(mid)
          /\ IF ~deleted
             THEN /\ Fail(1)
                  /\ cards' = [cards EXCEPT ![mid].error = "Error al eliminar juego"]
                  /\ UNCHANGED <<dbGames, effectPending, timers, hist>>
             ELSE /\ Fail(loadCost(lo) + callCost(fo))
                  /\ dbGames' = g1
                  /\ cards' = [cards EXCEPT ![mid] = loadData(@, mid, dbMatches, g1, lo)]
                  /\ onCorrectScoreCalls(forceUpdateTable(mid, dbMatches, fo))
                  /\ hist' = NoHist

\* How getPairs, accumulateMatchStatistics and updateMatch may end in finishMatch.
FinishOutcomes == {"ok", "getPairsThrows", "accumulateThrows", "accumulateFails",
                   "updateThrows"}

\* Variant: updateMatch is called although accumulateMatchStatistics reported
\* a failure.
finishMatchEndsIgnoringResult(mid, o, lo, fo) ==
  /\ cards[mid].currentMatch # Null
  /\ ~isFinished(cards[mid].currentMatch[1])
  /\ LET m2 == updateMatch(dbMatches, cards[mid].currentMatch[1].id, TRUE)
     IN /\ UNCHANGED <<dbPairs, dbGames, gameSeq, tableVars>> /\ handlerEnds(mid)
        /\ IF o = "accumulateFails"
           THEN /\ Fail(1)
                /\ dbMatches' = m2
                /\ cards' = [cards EXCEPT ![mid].error = "Error: message"]
                /\ hist' = histAfterUpdate(hist, mid, TRUE, dbMatches, m2)
                /\ UNCHANGED <<effectPending, timers>>
           ELSE IF o # "ok"
           THEN /\ Fail(1)
                /\ cards' = [cards EXCEPT ![mid].error = "Error al finalizar partido"]
                /\ UNCHANGED <<dbMatches, effectPending, timers, hist>>
           ELSE /\ Fail(loadCost(lo) + callCost(fo))
                /\ dbMatches' = m2
                /\ cards' = [cards EXCEPT ![mid] = loadData(@, mid, m2, dbGames, lo)]
                /\ onCorrectScoreCalls(forceUpdateTable(mid, m2, fo))
                /\ hist' = histAfterUpdate(hist, mid, TRUE, dbMatches, m2)

\* finishMatch with the outcome o of its calls up to updateMatch, lo of its
\* loadData and fo of the getMatches of its forceUpdateTable.
finishMatchEnds(mid, o, lo, fo) ==
  /\ cards[mid].currentMatch # Null
  /\ ~isFinished(cards[mid].currentMatch[1])
  /\ LET m2 == updateMatch(dbMatches, cards[mid].currentMatch[1].id, TRUE)
     IN /\ UNCHANGED <<dbPairs, dbGames, gameSeq, tableVars>> /\ handlerEnds(mid)
        /\ IF o = "accumulateFails"
           THEN /\ Fail(1)
                /\ cards' = [cards EXCEPT ![mid].error = "Error: message"]
                /\ UNCHANGED <<dbMatches, effectPending, timers, hist>>
           ELSE IF o # "ok"
           THEN /\ Fail(1)
                /\ cards' = [cards EXCEPT ![mid].error = "Error al finalizar partido"]
                /\ UNCHANGED <<dbMatches, effectPending, timers, hist>>
           ELSE /\ Fail(loadCost(lo) + callCost(fo))
                /\ dbMatches' = m2
                /\ cards' = [cards EXCEPT ![mid] = loadData(@, mid, m2, dbGames, lo)]
                /\ onCorrectScoreCalls(forceUpdateTable(mid, m2, fo))
                /\ hist' = histAfterUpdate(hist, mid, TRUE, dbMatches, m2)

FinishMatch(mid) ==
  \E o \in FinishOutcomes, lo \in LoadOutcomes, fo \in BOOLEAN :
    finishMatchEnds(mid, o, lo, fo)

\* Variant: reopenMatch writes is_finished: true.
ReopenMatchKeepsFinished(mid) ==
  /\ cards[mid].currentMatch # Null
  /\ isFinished(cards[mid].currentMatch[1])
  /\ \E updated \in BOOLEAN, lo \in LoadOutcomes, fo \in BOOLEAN :
       LET m2 == updateMatch(dbMatches, cards[mid].currentMatch[1].id, TRUE)
       IN /\ UNCHANGED <<dbPairs, dbGames, gameSeq, tableVars>> /\ handlerEnds(mid)
          /\ IF ~updated
             THEN /\ Fail(1)
                  /\ cards' = [cards EXCEPT ![mid].error = "Error al reabrir partido"]
                  /\ UNCHANGED <<dbMatches, effectPending, timers, hist>>
             ELSE /\ Fail(loadCost(lo) + callCost(fo))
                  /\ dbMatches' = m2
                  /\ cards' = [cards EXCEPT ![mid] = loadData(@, mid, m2, dbGames, lo)]
                  /\ onCorrectScoreCalls(forceUpdateTable(mid, m2, fo))
                  /\ hist' = histAfterUpdate(hist, mid, FALSE, dbMatches, m2)

ReopenMatch(mid) ==
  /\ cards[mid].currentMatch # Null
  /\ isFinished(cards[mid].currentMatch[1])
  /\ \E updated \in BOOLEAN, lo \in LoadOutcomes, fo \in BOOLEAN :
       LET m2 == updateMatch(dbMatches, cards[mid].currentMatch[1].id, FALSE)
       IN /\ UNCHANGED <<dbPairs, dbGames, gameSeq, tableVars>> /\ handlerEnds(mid)
          /\ IF ~updated
             THEN /\ Fail(1)
                  /\ cards' = [cards EXCEPT ![mid].error = "Error al reabrir partido"]
                  /\ UNCHANGED <<dbMatches, effectPending, timers, hist>>
             ELSE /\ Fail(loadCost(lo) + callCost(fo))
                  /\ dbMatches' = m2
                  /\ cards' = [cards EXCEPT ![mid] = loadData(@, mid, m2, dbGames, lo)]
                  /\ onCorrectScoreCalls(forceUpdateTable(mid, m2, fo))
                  /\ hist' = histAfterUpdate(hist, mid, FALSE, dbMatches, m2)

\* ------------------------------------- the card's handlers, step by step
\* addGame, removeGame, finishMatch and reopenMatch are async functions: a run
\* goes up to its first await when the button is clicked, goes on when its
\* persistence calls have answered, again when the fetches of its loadData
\* have answered, and ends when the getMatches of its forceUpdateTable has
\* answered.  The data-access layer answers a request with the rows stored
\* when the request is made.
HandlerOps == {"addGame", "removeGame", "finishMatch", "reopenMatch"}

\* The card of match mid shows the button of op, enabled.
buttonShown(mid, op) ==
  /\ ~cardLoading[mid]
  /\ cards[mid].currentMatch # Null
  /\ op = "removeGame" => Len(cards[mid].games) > 0
  /\ op = "finishMatch" => ~isFinished(cards[mid].currentMatch[1])
  /\ op = "reopenMatch" => isFinished(cards[mid].currentMatch[1])

\* A run up to its first await, with what it read from the card's state:
\* for removeGame the game is the k-th of the list.
NewCall(mid, op, k) ==
  [card |-> mid, op |-> op, pc |-> "persist",
   matchId |-> cards[mid].currentMatch[1].id,
   gameNumber |-> Len(cards[mid].games) + 1,
   gameId |-> IF op = "removeGame" THEN cards[mid].games[k].id ELSE 0,
   snapshot |-> NoSnapshot]

removeAt(q, k) == SubSeq(q, 1, k - 1) \o SubSeq(q, k + 1, Len(q))

\* The runs that may still create a game.
creating == {k \in DOMAIN calls : calls[k].op = "addGame" /\ calls[k].pc = "persist"}

\* The button of op is clicked on the card of match mid, with "6" and "4" in
\* the score inputs: setLoading(true), setError(null), the first request.
HandlerStarts(mid, op) ==
  /\ buttonShown(mid, op)
  /\ Len(calls) < MaxCalls
  /\ persisted + Len(calls) < MaxMutations
  /\ op = "addGame" => gameSeq + Cardinality(creating) < MaxGameId
  /\ \E k \in (IF op = "removeGame" THEN DOMAIN cards[mid].games ELSE {1}) :
       calls' = Append(calls, NewCall(mid, op, k))
  /\ cardLoading' = [cardLoading EXCEPT ![mid] = TRUE]
  /\ cards' = [cards EXCEPT ![mid].error = ""]
  /\ UNCHANGED <<dbVars, tableVars, effectPending, timers, scheduled, persisted,
                 delivered, faults, hist>>

\* The Actualizar button, which is rendered when loading is false, and the
\* effect on mount, when loading is false as well: loadData().
ActualizarClicked(mid) ==
  /\ ~cardLoading[mid]
  /\ CardLoadData(mid)

\* How the persistence calls of a run may end.
PersistOutcomes(op) ==
  CASE op = "addGame" -> {"ok", "createThrows", "updateThrows"}
    [] op = "removeGame" -> {"ok", "deleteThrows"}
    [] op = "finishMatch" -> FinishOutcomes
    [] op = "reopenMatch" -> {"ok", "updateThrows"}

\* The error the run's catch block (or the else of finishMatch) sets.
errorOf(op, o) ==
  CASE op = "addGame" -> "Error al agregar juego"
    [] op = "removeGame" -> "Error al eliminar juego"
    [] op = "finishMatch" ->
         (IF o = "accumulateFails" THEN "Error: message" ELSE "Error al finalizar partido")
    [] op = "reopenMatch" -> "Error al reabrir partido"

\* The persistence calls of run k have answered.  When they succeeded the run
\* calls loadData, which runs up to its first await; otherwise the run ends.
HandlerPersists(k) ==
  LET c == calls[k]
      created == createGame(dbGames, gameSeq, c.matchId, c.gameNumber)
  IN /\ c.pc = "persist"
     /\ \E o \in PersistOutcomes(c.op) :
          /\ Fail(IF o = "ok" THEN 0 ELSE 1)
          /\ IF c.op = "addGame" /\ o # "createThrows"
             THEN /\ dbGames' = IF o = "ok" THEN updateGame(created, gameSeq + 1, 6, 4)
                                ELSE created
                  /\ gameSeq' = gameSeq + 1
                  /\ hist' = NoHist
                  /\ UNCHANGED dbMatches
             ELSE IF c.op = "removeGame" /\ o = "ok"
             THEN /\ dbGames' = deleteGame(dbGames, c.gameId)
                  /\ hist' = NoHist
                  /\ UNCHANGED <<dbMatches, gameSeq>>
             ELSE IF c.op \in {"finishMatch", "reopenMatch"} /\ o = "ok"
             THEN /\ dbMatches' = updateMatch(dbMatches, c.matchId, c.op = "finishMatch")
                  /\ hist' = histAfterUpdate(hist, c.card, c.op = "finishMatch",
                                             dbMatches, dbMatches')
                  /\ UNCHANGED <<dbGames, gameSeq>>
             ELSE UNCHANGED <<dbMatches, dbGames, gameSeq, hist>>
          /\ persisted' = IF o = "ok" \/ (c.op = "addGame" /\ o = "updateThrows")
                          THEN persisted + 1 ELSE persisted
          /\ IF o = "ok"
             THEN /\ calls' = [calls EXCEPT ![k].pc = "load"]
                  /\ cardLoading' = [cardLoading EXCEPT ![c.card] = TRUE]
                  /\ cards' = [cards EXCEPT ![c.card].error = ""]
             ELSE /\ calls' = removeAt(calls, k)
                  /\ cardLoading' = [cardLoading EXCEPT ![c.card] = FALSE]
                  /\ cards' = [cards EXCEPT ![c.card].error = errorOf(c.op, o)]
     /\ UNCHANGED <<dbPairs, tableVars, effectPending, timers, scheduled, delivered>>

\* The row of match mid that a getMatches requested now will return.
requested(mid) ==
  LET found == SelectSeq(dbMatches, LAMBDA m : m.id = mid)
  IN IF Len(found) = 0 THEN NoSnapshot ELSE Snapshot(Some(found[1]), persisted)

\* The loadData of run k has ended, in its finally block: setLoading(false).
\* The run calls forceUpdateTable, which requests the matches.
HandlerLoads(k) ==
  LET c == calls[k]
  IN /\ c.pc = "load"
     /\ \E lo \in LoadOutcomes :
          /\ Fail(loadCost(lo))
          /\ cards' = [cards EXCEPT ![c.card] = loadData(@, c.card, dbMatches, dbGames, lo)]
     /\ cardLoading' = [cardLoading EXCEPT ![c.card] = FALSE]
     /\ calls' = [calls EXCEPT ![k].pc = "refresh", ![k].snapshot = requested(c.card)]
     /\ UNCHANGED <<dbVars, tableVars, effectPending, timers, scheduled, persisted,
                    delivered, hist>>

\* onCorrectScore(updatedMatch)
onCorrectScore(snap) ==
  /\ effectPending' = TRUE
  /\ delivered' = [last |-> snap,
                   newest |-> IF snap.after >= delivered.newest.after
                              THEN snap ELSE delivered.newest]

\* setTimeout(() => onCorrectScore(updatedMatch), delay)
setTimeout(snap, delay) == [match |-> snap.match, after |-> snap.after, delay |-> delay]

\* The getMatches of the forceUpdateTable of run k has answered: onCorrectScore
\* at once and two callbacks scheduled when the match was found; then the
\* finally block of the run, setLoading(false).
HandlerRefreshes(k) ==
  LET c == calls[k]
  IN /\ c.pc = "refresh"
     /\ \E fo \in BOOLEAN :
          /\ Fail(callCost(fo))
          /\ IF fo /\ c.snapshot.match # Null
             THEN /\ Len(scheduled) + DelayedCalls <= MaxScheduled
                  /\ onCorrectScore(c.snapshot)
                  /\ scheduled' = scheduled \o <<setTimeout(c.snapshot, 100),
                                                 setTimeout(c.snapshot, 300)>>
             ELSE UNCHANGED <<effectPending, delivered, scheduled>>
     /\ cardLoading' = [cardLoading EXCEPT ![c.card] = FALSE]
     /\ calls' = removeAt(calls, k)
     /\ UNCHANGED <<dbVars, tableVars, cards, timers, persisted, hist>>

\* The j-th pending callback runs; a callback set earlier with the same or a
\* shorter delay runs before it.
ScheduledCallRuns(j) ==
  /\ \A i \in 1..(j - 1) : scheduled[i].delay > scheduled[j].delay
  /\ onCorrectScore(Snapshot(scheduled[j].match, scheduled[j].after))
  /\ scheduled' = removeAt(scheduled, j)
  /\ UNCHANGED <<dbVars, tableVars, cards, timers, cardLoading, calls, persisted,
                 faults, hist>>

\* ------------------------------------------------------------ table actions
\* How the fetches of loadTournamentData may end.
TableOutcomes == {"ok", "failFirst", "failGames"}

loadTournamentData(outcome) ==
  IF outcome = "failFirst"
  THEN /\ Fail(1)
       /\ error' = "Error al cargar los datos de la reta"
       /\ UNCHANGED <<pairs, matches, allGames>>
  ELSE IF outcome = "failGames"
  THEN /\ Len(dbMatches) > 0
       /\ Fail(1)
       /\ pairs' = dbPairs
       /\ matches' = dbMatches
       /\ error' = "Error al cargar los datos de la reta"
       /\ UNCHANGED allGames
  ELSE /\ Fail(0)
       /\ pairs' = dbPairs
       /\ matches' = dbMatches
       /\ allGames' = flatGames(dbMatches, dbGames, 1)
       /\ error' = ""

\* useEffect on [tournamentId, forceRefresh]
TableEffect ==
  /\ effectPending
  /\ effectPending' = FALSE
  /\ UNCHANGED timers
  /\ \E o \in TableOutcomes : loadTournamentData(o)
  /\ UNCHANGED <<dbVars, loadVars, cards, stepVars, hist>>

\* the Recalcular button
recalculateStatistics ==
  /\ \E o \in TableOutcomes : loadTournamentData(o)
  /\ UNCHANGED <<dbVars, loadVars, cards, effectPending, timers, stepVars, hist>>

\* ------------------------------------------ the table's load, step by step
\* loadTournamentData is an async function: it runs up to its first await
\* when it is called, goes on when getPairs and getMatches have answered, and
\* again when every getGames has answered.  The data-access layer answers a
\* request with the rows stored when the request is made.
\*
\* A run: where it stands, what it fetched, and what the table held when it
\* started.
NewRun ==
  [pc |-> "first", pairsData |-> dbPairs, matchesData |-> dbMatches,
   gamesData |-> <<>>, before |-> <<pairs, matches, allGames>>]

inFlight(r) == r.pc \in {"first", "games"}
idle == \A k \in DOMAIN runs : ~inFlight(runs[k])

\* shown.pm and shown.g are positions in runs; 0 stands for what the table
\* held before these runs when that was from one load (or nothing), -1 and -2
\* for what it held when that was from two loads.
NothingLoaded == [pm |-> 0, g |-> 0]
earlier(sh) ==
  IF sh.pm = sh.g THEN NothingLoaded ELSE [pm |-> -1, g |-> -2]

\* Up to the first await: setLoading(true), setError(""), the two requests.
loadTournamentDataCalled ==
  /\ Len(IF idle THEN <<>> ELSE runs) < MaxRuns
  /\ runs' = Append(IF idle THEN <<>> ELSE runs, NewRun)
  /\ shown' = IF idle THEN earlier(shown) ELSE shown
  /\ loading' = TRUE
  /\ error' = ""
  /\ UNCHANGED <<pairs, matches, allGames>>

\* useEffect on [tournamentId, forceRefresh]
TableEffectCalls ==
  /\ effectPending
  /\ effectPending' = FALSE
  /\ UNCHANGED timers
  /\ loadTournamentDataCalled
  /\ UNCHANGED <<dbVars, cards, stepVars, faults, hist>>

\* the Recalcular button, which is rendered when loading is false
RecalcularClicked ==
  /\ ~loading
  /\ loadTournamentDataCalled
  /\ UNCHANGED <<dbVars, cards, effectPending, timers, stepVars, faults, hist>>

\* getPairs and getMatches of run k have answered, or one of them has failed.
loadTournamentDataFetched(k) ==
  /\ runs[k].pc = "first"
  /\ \E ok \in BOOLEAN :
       IF ok
       THEN /\ Fail(0)
            /\ pairs' = runs[k].pairsData
            /\ matches' = runs[k].matchesData
            /\ shown' = [shown EXCEPT !.pm = k]
            /\ runs' = [runs EXCEPT ![k].pc = "games",
                                    ![k].gamesData = flatGames(runs[k].matchesData, dbGames, 1)]
            /\ UNCHANGED <<allGames, error, loading>>
       ELSE /\ Fail(1)
            /\ error' = "Error al cargar los datos de la reta"
            /\ loading' = FALSE
            /\ runs' = [runs EXCEPT ![k].pc = "failed"]
            /\ UNCHANGED <<pairs, matches, allGames, shown>>
  /\ UNCHANGED <<dbVars, cards, effectPending, timers, stepVars, hist>>

\* every getGames of run k has answered, or one of them has failed.
loadTournamentDataGames(k) ==
  /\ runs[k].pc = "games"
  /\ \E ok \in BOOLEAN :
       IF ok
       THEN /\ Fail(0)
            /\ allGames' = runs[k].gamesData
            /\ shown' = [shown EXCEPT !.g = k]
            /\ loading' = FALSE
            /\ runs' = [runs EXCEPT ![k].pc = "done"]
            /\ UNCHANGED <<pairs, matches, error>>
       ELSE /\ Len(runs[k].matchesData) > 0
            /\ Fail(1)
            /\ error' = "Error al cargar los datos de la reta"
            /\ loading' = FALSE
            /\ runs' = [runs EXCEPT ![k].pc = "failed"]
            /\ UNCHANGED <<pairs, matches, allGames, shown>>
  /\ UNCHANGED <<dbVars, cards, effectPending, timers, stepVars, hist>>

\* ------------------------------------------------------------ specification
InitMounted ==
  /\ pairs = <<>>
  /\ matches = <<>>
  /\ allGames = <<>>
  /\ error = ""
  /\ loading = FALSE
  /\ runs = <<>>
  /\ shown = NothingLoaded
  /\ cards = [m \in MatchIds |-> NewCard]
  /\ effectPending = TRUE
  /\ timers = 0
  /\ cardLoading = [m \in MatchIds |-> FALSE]
  /\ calls = <<>>
  /\ scheduled = <<>>
  /\ persisted = 0
  /\ delivered = NothingDelivered
  /\ hist = NoHist

InitComponents ==
  /\ InitMounted
  /\ faults = 0

\* A tournament of two matches with no game played yet; the third pair may
\* have been removed from the pairs table.
Init ==
  /\ dbPairs \in {<<P1, P2, P3>>, <<P1, P2>>}
  /\ dbMatches = <<Match("m1", "P1", "P2", "in_progress"),
                   Match("m2", "P3", "P1", "in_progress")>>
  /\ dbGames = <<>>
  /\ gameSeq = 0
  /\ InitComponents

Next ==
  \/ \E mid \in MatchIds : CardLoadData(mid)
  \/ \E mid \in MatchIds : AddGame(mid)
  \/ \E mid \in MatchIds : RemoveGame(mid)
  \/ \E mid \in MatchIds : FinishMatch(mid)
  \/ \E mid \in MatchIds : ReopenMatch(mid)
  \/ onCorrectScoreDelayed

\* The match cards working on the tournament's data.
Spec == Init /\ [][Next]_vars

\* ------------------------------------------------- the table over stored data
NextTable ==
  \/ TableEffect
  \/ recalculateStatistics

NextTableAndCard ==
  \/ TableEffect
  \/ recalculateStatistics
  \/ \E mid \in MatchIds : CardLoadData(mid)

\* Score values of stored games.
ScoreVals == 0..MaxScore
NullableScoreVals == {Null} \cup {Some(v) : v \in ScoreVals}

\* One finished match P1 vs P2 with one stored game of any kind.
GameData ==
  /\ dbPairs = <<P1, P2, P3>>
  /\ dbMatches = <<Match("m1", "P1", "P2", "finished")>>
  /\ \E tb \in BOOLEAN, g1 \in ScoreVals, g2 \in ScoreVals,
        t1 \in NullableScoreVals, t2 \in NullableScoreVals :
       dbGames = <<Game(1, "m1", 1, tb, g1, g2, t1, t2)>>
  /\ gameSeq = 1
  /\ InitMounted

InitGame == GameData /\ faults = 0

SpecGame == InitGame /\ [][NextTable]_vars

\* Games a stored match may consist of: 6-2, 4-6, 7-6 and 6-6 as normal games,
\* a tie-break 7-5 played at 6-6, and a tie-break with no points entered.
GameKinds ==
  {<<FALSE, 6, 2, Some(0), Some(0)>>, <<FALSE, 4, 6, Some(0), Some(0)>>,
   <<FALSE, 7, 6, Some(0), Some(0)>>, <<FALSE, 6, 6, Some(0), Some(0)>>,
   <<TRUE, 6, 6, Some(7), Some(5)>>, <<TRUE, 0, 0, Null, Null>>}

gameOfKind(k, id, mid, num) == Game(id, mid, num, k[1], k[2], k[3], k[4], k[5])

\* All sequences over S of length at most n.
RECURSIVE SeqsUpTo(_, _)
SeqsUpTo(S, n) ==
  IF n = 0 THEN {<<>>}
  ELSE LET shorter == SeqsUpTo(S, n - 1)
       IN shorter \cup {Append(q, x) : q \in shorter, x \in S}

\* Match m1 (P1 vs P2), finished or not, with up to MaxGames games; m2 has not
\* started.
InitMatch ==
  /\ dbPairs = <<P1, P2, P3>>
  /\ \E st \in Statuses :
       dbMatches = <<Match("m1", "P1", "P2", st),
                     Match("m2", "P3", "P1", "in_progress")>>
  /\ \E ks \in SeqsUpTo(GameKinds, MaxGames) :
       dbGames = [i \in 1..Len(ks) |-> gameOfKind(ks[i], i, "m1", i)]
  /\ gameSeq = Len(dbGames)
  /\ InitComponents

SpecMatch == InitMatch /\ [][NextTableAndCard]_vars

\* Games of the ranking data sets: 6-0, 0-6 and 6-6 as normal games, and a
\* tie-break 5-6 played at 6-6.
RankGameKinds ==
  {<<FALSE, 6, 0, Some(0), Some(0)>>, <<FALSE, 0, 6, Some(0), Some(0)>>,
   <<FALSE, 6, 6, Some(0), Some(0)>>, <<TRUE, 6, 6, Some(5), Some(6)>>}

\* The pairs table in every order, with the third pair removed, and empty.
PairArrays ==
  {<<P1, P2, P3>>, <<P1, P3, P2>>, <<P2, P1, P3>>, <<P2, P3, P1>>,
   <<P3, P1, P2>>, <<P3, P2, P1>>, <<P1, P2>>, <<P2, P1>>, <<>>}

\* Any order of the pairs; no match, or m1 (P1 vs P2) and m2 (P3 vs P1) in any
\* status with up to MaxRankGames games each.
InitRank ==
  /\ dbPairs \in PairArrays
  /\ \/ /\ dbMatches = <<>>
        /\ dbGames = <<>>
     \/ /\ \E s1 \in Statuses, s2 \in Statuses :
             dbMatches = <<Match("m1", "P1", "P2", s1), Match("m2", "P3", "P1", s2)>>
        /\ \E k1 \in SeqsUpTo(RankGameKinds, MaxRankGames),
              k2 \in SeqsUpTo(RankGameKinds, MaxRankGames) :
             dbGames = [i \in 1..Len(k1) |-> gameOfKind(k1[i], i, "m1", i)]
                       \o [i \in 1..Len(k2) |-> gameOfKind(k2[i], Len(k1) + i, "m2", i)]
  /\ gameSeq = Len(dbGames)
  /\ InitComponents

SpecRank == InitRank /\ [][NextTable]_vars

\* The match cards loading a match with one stored game of any kind, with a
\* data-access layer that does not fail.
NextCardLoad == \E mid \in MatchIds : CardLoadData(mid)

InitGameCard == GameData /\ faults = MaxFaults

SpecGameCard == InitGameCard /\ [][NextCardLoad]_vars

\* Games of the order data sets: 6-2 and 4-6 as normal games, and a tie-break
\* 7-5 played at 6-6.
OrderGameKinds ==
  {<<FALSE, 6, 2, Some(0), Some(0)>>, <<FALSE, 4, 6, Some(0), Some(0)>>,
   <<TRUE, 6, 6, Some(7), Some(5)>>}

\* Both matches in any status, m1 with up to MaxOrderGames games and m2 with
\* up to MaxRankGames games.
InitOrder ==
  /\ dbPairs = <<P1, P2, P3>>
  /\ \E s1 \in Statuses, s2 \in Statuses :
       dbMatches = <<Match("m1", "P1", "P2", s1), Match("m2", "P3", "P1", s2)>>
  /\ \E k1 \in SeqsUpTo(OrderGameKinds, MaxOrderGames),
        k2 \in SeqsUpTo(OrderGameKinds, MaxRankGames) :
       dbGames = [i \in 1..Len(k1) |-> gameOfKind(k1[i], i, "m1", i)]
                 \o [i \in 1..Len(k2) |-> gameOfKind(k2[i], Len(k1) + i, "m2", i)]
  /\ gameSeq = Len(dbGames)
  /\ InitComponents

SpecOrder == InitOrder /\ [][NextTable]_vars

\* The table loading, run by run and step by step, while the card of the
\* first match finishes and reopens it.
EditedMatchIds == {"m1"}

NextLoads ==
  \/ TableEffectCalls
  \/ RecalcularClicked
  \/ \E k \in DOMAIN runs : loadTournamentDataFetched(k)
  \/ \E k \in DOMAIN runs : loadTournamentDataGames(k)
  \/ \E mid \in EditedMatchIds : CardLoadData(mid)
  \/ \E mid \in EditedMatchIds : FinishMatch(mid)
  \/ \E mid \in EditedMatchIds : ReopenMatch(mid)
  \/ onCorrectScoreDelayed

\* Match m1 (P1 vs P2) in progress with the game 6-4, m2 not started.
InitLoads ==
  /\ dbPairs = <<P1, P2, P3>>
  /\ dbMatches = <<Match("m1", "P1", "P2", "in_progress"),
                   Match("m2", "P3", "P1", "in_progress")>>
  /\ dbGames = <<Game(1, "m1", 1, FALSE, 6, 4, Some(0), Some(0))>>
  /\ gameSeq = 1
  /\ InitComponents

SpecLoads == InitLoads /\ [][NextLoads]_vars

\* The card of the first match with scores typed freely into its inputs.
NextEntry ==
  \/ \E mid \in EditedMatchIds : CardLoadData(mid)
  \/ \E mid \in EditedMatchIds : AddGameTyped(mid)
  \/ \E mid \in EditedMatchIds : RemoveGame(mid)
  \/ onCorrectScoreDelayed

SpecEntry == Init /\ [][NextEntry]_vars

\* The card of the first match with its handlers taken step by step.
NextHandlers ==
  \/ \E mid \in EditedMatchIds : ActualizarClicked(mid)
  \/ \E mid \in EditedMatchIds, op \in HandlerOps : HandlerStarts(mid, op)
  \/ \E k \in DOMAIN calls : HandlerPersists(k)
  \/ \E k \in DOMAIN calls : HandlerLoads(k)
  \/ \E k \in DOMAIN calls : HandlerRefreshes(k)
  \/ \E j \in DOMAIN scheduled : ScheduledCallRuns(j)

SpecHandlers == InitLoads /\ [][NextHandlers]_vars

\* ================================================================ claims
\* The aggregate of every match the table holds with exactly one game.
singleGameStats ==
  {<<calculateMatchStats(matches[i], matchGamesOf(allGames, matches[i])),
     matchGamesOf(allGames, matches[i])[1]>> :
     i \in {j \in DOMAIN matches : Len(matchGamesOf(allGames, matches[j])) = 1}}

\* C4: a normal game gives the game win to the side with strictly more games
\* (to neither on equality), adds each side's raw games to its points, and
\* gives each side one set credit iff its own games are >= 6; 6-7 credits the
\* win to pair2 and a set to both.
C4_NormalGameScoring ==
  \A sg \in singleGameStats :
    LET stats == sg[1]
        g == sg[2]
    IN ~g.is_tie_break =>
         /\ stats.pair1GamesWon = (IF g.pair1_games > g.pair2_games THEN 1 ELSE 0)
         /\ stats.pair2GamesWon = (IF g.pair2_games > g.pair1_games THEN 1 ELSE 0)
         /\ stats.pair1TotalPoints = g.pair1_games
         /\ stats.pair2TotalPoints = g.pair2_games
         /\ stats.pair1SetsWon = (IF g.pair1_games >= 6 THEN 1 ELSE 0)
         /\ stats.pair2SetsWon = (IF g.pair2_games >= 6 THEN 1 ELSE 0)
         /\ (g.pair1_games = 6 /\ g.pair2_games = 7 =>
               stats = [pair1GamesWon |-> 0, pair2GamesWon |-> 1,
                        pair1SetsWon |-> 1, pair2SetsWon |-> 1,
                        pair1TotalPoints |-> 6, pair2TotalPoints |-> 7])

\* The table holds a match whose only game is the normal game 6-7.
C4_Witness ==
  \E sg \in singleGameStats :
    ~sg[2].is_tie_break /\ sg[2].pair1_games = 6 /\ sg[2].pair2_games = 7

\* C5: a tie-break game gives the game win to the side with strictly more
\* tie-break points (to neither on equality, both zero or unset included),
\* gives no set credit whatever the games and points are, and adds each side's
\* tie-break points (0 when unset) to its points; 7-5 gives pair1 one game
\* won, no set to either side and 7/5 points.
C5_TieBreakScoring ==
  \A sg \in singleGameStats :
    LET stats == sg[1]
        g == sg[2]
        t1 == IF g.tie_break_pair1_points = Null THEN 0 ELSE g.tie_break_pair1_points[1]
        t2 == IF g.tie_break_pair2_points = Null THEN 0 ELSE g.tie_break_pair2_points[1]
    IN g.is_tie_break =>
         /\ stats.pair1GamesWon = (IF t1 > t2 THEN 1 ELSE 0)
         /\ stats.pair2GamesWon = (IF t2 > t1 THEN 1 ELSE 0)
         /\ stats.pair1SetsWon = 0
         /\ stats.pair2SetsWon = 0
         /\ stats.pair1TotalPoints = t1
         /\ stats.pair2TotalPoints = t2
         /\ (t1 = 7 /\ t2 = 5 =>
               stats = [pair1GamesWon |-> 1, pair2GamesWon |-> 0,
                        pair1SetsWon |-> 0, pair2SetsWon |-> 0,
                        pair1TotalPoints |-> 7, pair2TotalPoints |-> 5])

\* The table holds a match whose only game is a 7-5 tie-break played at 6-6.
C5_Witness ==
  \E sg \in singleGameStats :
    /\ sg[2].is_tie_break
    /\ sg[2].tie_break_pair1_points = Some(7)
    /\ sg[2].tie_break_pair2_points = Some(5)
    /\ sg[2].pair1_games = 6
    /\ sg[2].pair2_games = 6

\* ---------------------------------------------------------------- C6
\* The result of one game read on its own: who wins it, and what each side
\* gets from it.
tieBreakPoints(x) == IF x = Null THEN 0 ELSE x[1]
pointsOfGame(g, side) ==
  IF g.is_tie_break
  THEN (IF side = 1 THEN tieBreakPoints(g.tie_break_pair1_points)
        ELSE tieBreakPoints(g.tie_break_pair2_points))
  ELSE (IF side = 1 THEN g.pair1_games ELSE g.pair2_games)
winOfGame(g, side) ==
  IF pointsOfGame(g, side) > pointsOfGame(g, 3 - side) THEN 1 ELSE 0
setOfGame(g, side) ==
  IF ~g.is_tie_break /\ pointsOfGame(g, side) >= 6 THEN 1 ELSE 0

RECURSIVE SumSeq(_)
SumSeq(q) == IF Len(q) = 0 THEN 0 ELSE Head(q) + SumSeq(Tail(q))

\* The sums of the per-game results of one side over a game list.
sideTotals(gs, side, played) ==
  [gamesWon |-> SumSeq([i \in DOMAIN gs |-> winOfGame(gs[i], side)]),
   setsWon |-> SumSeq([i \in DOMAIN gs |-> setOfGame(gs[i], side)]),
   points |-> SumSeq([i \in DOMAIN gs |-> pointsOfGame(gs[i], side)]),
   matchesPlayed |-> played]

statsOfRow(r) ==
  [gamesWon |-> r.gamesWon, setsWon |-> r.setsWon, points |-> r.points,
   matchesPlayed |-> r.matchesPlayed]

\* The standings the table computes from its state, and the ranking it shows.
tableStandings == pairsWithStats(pairs, matches, allGames)
tableRanking == sortedPairs(tableStandings)

rowOf(rows, id) == rows[CHOOSE i \in DOMAIN rows : rows[i].id = id]
positionOf(rows, id) == CHOOSE i \in DOMAIN rows : rows[i].id = id

finishedMatches == {i \in DOMAIN matches : matches[i].status = "finished"}

scoresOf(gs) == [i \in DOMAIN gs |-> <<gs[i].is_tie_break, gs[i].pair1_games, gs[i].pair2_games>>]

\* The standings of a tournament whose only finished match is matches[i],
\* between two pairs of the tournament, are the sums of its per-game results.
onlyMatchStandings(i) ==
  LET m == matches[i]
      gs == matchGamesOf(allGames, m)
  IN /\ statsOfRow(rowOf(tableStandings, m.pair1_id)) = sideTotals(gs, 1, 1)
     /\ statsOfRow(rowOf(tableStandings, m.pair2_id)) = sideTotals(gs, 2, 1)
     /\ \A k \in DOMAIN tableStandings :
          tableStandings[k].id \notin {m.pair1_id, m.pair2_id}
            => statsOfRow(tableStandings[k]) = ZeroStats
     /\ (scoresOf(gs) = <<<<FALSE, 6, 2>>, <<FALSE, 4, 6>>, <<FALSE, 7, 6>>>> =>
           /\ statsOfRow(rowOf(tableStandings, m.pair1_id)) =
                [gamesWon |-> 2, setsWon |-> 2, points |-> 17, matchesPlayed |-> 1]
           /\ statsOfRow(rowOf(tableStandings, m.pair2_id)) =
                [gamesWon |-> 1, setsWon |-> 2, points |-> 14, matchesPlayed |-> 1]
           /\ positionOf(tableRanking, m.pair1_id) < positionOf(tableRanking, m.pair2_id))

onlyFinishedMatch(i) ==
  /\ finishedMatches = {i}
  /\ {matches[i].pair1_id, matches[i].pair2_id} \subseteq pairIds(pairs)
  /\ matches[i].pair1_id # matches[i].pair2_id

\* C6 as stated: whenever X vs Y is the only finished match, X and Y have the
\* sums of its per-game results and matchesPlayed = 1 (and 2/2/17, 1/2/14 and
\* X above Y for 6-2, 4-6, 7-6).
C6_OnlyFinishedMatchAsStated ==
  \A i \in DOMAIN matches : onlyFinishedMatch(i) => onlyMatchStandings(i)

\* C6, amended: the same, for an only finished match with at least one game.
C6_OnlyFinishedMatch ==
  \A i \in DOMAIN matches :
    (onlyFinishedMatch(i) /\ Len(matchGamesOf(allGames, matches[i])) > 0)
      => onlyMatchStandings(i)

\* The table holds the finished match P1 vs P2 with the games 6-2, 4-6, 7-6.
C6_Witness ==
  \E i \in DOMAIN matches :
    /\ onlyFinishedMatch(i)
    /\ scoresOf(matchGamesOf(allGames, matches[i]))
         = <<<<FALSE, 6, 2>>, <<FALSE, 4, 6>>, <<FALSE, 7, 6>>>>
    /\ rowOf(tableStandings, "P1").points = 17

\* ---------------------------------------------------------------- C7
\* The outcome the aggregate of a game list gives: games won compared.
aggregateOutcome(match, gs) ==
  LET stats == calculateMatchStats(match, gs)
  IN IF stats.pair1GamesWon > stats.pair2GamesWon THEN "pair1"
     ELSE IF stats.pair2GamesWon > stats.pair1GamesWon THEN "pair2"
     ELSE "tie"

\* C7: for every game list (tie-breaks and the empty list included) the
\* outcome the match card shows is the comparison of the aggregate's
\* pair1GamesWon and pair2GamesWon, whatever the match's status is.
C7_CardOutcomeIsAggregateOutcome ==
  \A mid \in MatchIds :
    cards[mid].currentMatch # Null =>
      getWinnerLabel(cards[mid].games)
        = aggregateOutcome(cards[mid].currentMatch[1], cards[mid].games)

\* ---------------------------------------------------------------- C8
\* The match counts in the table's standings: finished, with a game, both
\* pairs known.
countedMatch(m) ==
  /\ m.status = "finished"
  /\ Len(matchGamesOf(allGames, m)) > 0
  /\ {m.pair1_id, m.pair2_id} \subseteq pairIds(pairs)

playsCounted(id) ==
  \E i \in DOMAIN matches :
    countedMatch(matches[i]) /\ id \in {matches[i].pair1_id, matches[i].pair2_id}

nameOrder(a, b) == localeCompare(displayName(a), displayName(b))

\* C8: the standings and the ranking have exactly one row per input pair; a
\* pair in no counted finished match is at 0/0/0/0; with no finished match
\* every pair is at 0/0/0/0 and the ranking follows the name comparison alone.
C8_OneRowPerPairZeroDefault ==
  /\ Len(tableStandings) = Len(pairs)
  /\ \A k \in DOMAIN pairs :
       /\ tableStandings[k].id = pairs[k].id
       /\ tableStandings[k].player1_name = pairs[k].player1_name
       /\ tableStandings[k].player2_name = pairs[k].player2_name
       /\ (~playsCounted(pairs[k].id) => statsOfRow(tableStandings[k]) = ZeroStats)
  /\ Len(tableRanking) = Len(pairs)
  /\ \A k \in DOMAIN pairs :
       Cardinality({i \in DOMAIN tableRanking : tableRanking[i] = tableStandings[k]}) = 1
  /\ (finishedMatches = {} =>
        /\ \A k \in DOMAIN tableStandings : statsOfRow(tableStandings[k]) = ZeroStats
        /\ \A i, j \in DOMAIN tableRanking :
             i < j => nameOrder(tableRanking[i], tableRanking[j]) <= 0)

\* The table holds three pairs and two unfinished matches with games, and
\* ranks "a/b", "a/b", "ab/a" from an input that starts with "ab/a".
C8_Witness ==
  /\ Len(pairs) = 3
  /\ Len(matches) = 2
  /\ finishedMatches = {}
  /\ Len(allGames) > 0
  /\ pairs[1].id = "P3"
  /\ tableRanking[3].id = "P3"

\* ---------------------------------------------------------------- C9
precedes(a, b) ==
  \/ a.points > b.points
  \/ a.points = b.points /\ a.setsWon > b.setsWon
  \/ a.points = b.points /\ a.setsWon = b.setsWon /\ a.gamesWon > b.gamesWon
  \/ /\ a.points = b.points
     /\ a.setsWon = b.setsWon
     /\ a.gamesWon = b.gamesWon
     /\ nameOrder(a, b) <= 0

idsOf(rows) == [i \in DOMAIN rows |-> rows[i].id]

withoutMatchesPlayed(rows) == [i \in DOMAIN rows |-> [rows[i] EXCEPT !.matchesPlayed = 0]]

\* C9: of two rows of the ranking the earlier one has more points, or equal
\* points and more sets, or equal points and sets and more games won, or all
\* three equal and a name that is not greater; matchesPlayed plays no part
\* (the order is the one of the same rows with matchesPlayed erased).
C9_RankingOrder ==
  /\ \A i, j \in DOMAIN tableRanking :
       i < j => precedes(tableRanking[i], tableRanking[j])
  /\ idsOf(tableRanking) = idsOf(sortedPairs(withoutMatchesPlayed(tableStandings)))

\* The ranking holds two rows with equal points and sets where the one with
\* more games won comes first against the name order, and two rows equal in
\* all but matchesPlayed where the one that played less comes first.
C9_Witness ==
  /\ \E i, j \in DOMAIN tableRanking :
       /\ i < j
       /\ tableRanking[i].points = tableRanking[j].points
       /\ tableRanking[i].setsWon = tableRanking[j].setsWon
       /\ tableRanking[i].gamesWon > tableRanking[j].gamesWon
       /\ nameOrder(tableRanking[i], tableRanking[j]) > 0
  /\ \E i, j \in DOMAIN tableRanking :
       /\ i < j
       /\ tableRanking[i].points = tableRanking[j].points
       /\ tableRanking[i].setsWon = tableRanking[j].setsWon
       /\ tableRanking[i].gamesWon = tableRanking[j].gamesWon
       /\ nameOrder(tableRanking[i], tableRanking[j]) = 0
       /\ tableRanking[i].matchesPlayed < tableRanking[j].matchesPlayed

\* ---------------------------------------------------------------- C10
\* The pair array in another order.
permuted(pairList, f) == [i \in DOMAIN pairList |-> pairList[f[i]]]

\* C10: the ranking of any permutation of the pair array, with the same
\* matches and games, has the same pair ids at the same positions.
C10_RankingIgnoresInputOrder ==
  \A f \in Permutations(DOMAIN pairs) :
    idsOf(sortedPairs(pairsWithStats(permuted(pairs, f), matches, allGames)))
      = idsOf(tableRanking)

\* ---------------------------------------------------------------- C1
\* What a complete reload of the stored data gives the table.
reloadedGames == flatGames(dbMatches, dbGames, 1)
reloaded == pairsWithStats(dbPairs, dbMatches, reloadedGames)

\* The same with the i-th match left out.
reloadedWithout(i) ==
  pairsWithStats(dbPairs,
                 SubSeq(dbMatches, 1, i - 1) \o SubSeq(dbMatches, i + 1, Len(dbMatches)),
                 reloadedGames)

addStats(a, b) ==
  [gamesWon |-> a.gamesWon + b.gamesWon, setsWon |-> a.setsWon + b.setsWon,
   points |-> a.points + b.points, matchesPlayed |-> a.matchesPlayed + b.matchesPlayed]

\* What match m adds to the pair id when it counts.
shareOf(m, id) ==
  LET gs == matchGamesOf(reloadedGames, m)
      s1 == IF id = m.pair1_id THEN sideTotals(gs, 1, 1) ELSE ZeroStats
      s2 == IF id = m.pair2_id THEN sideTotals(gs, 2, 1) ELSE ZeroStats
  IN addStats(s1, s2)

\* The i-th match is counted: its games are added to its two pairs' totals
\* and their matchesPlayed are incremented.
matchCounted(i) ==
  /\ {dbMatches[i].pair1_id, dbMatches[i].pair2_id} \subseteq pairIds(dbPairs)
  /\ \A k \in DOMAIN dbPairs :
       statsOfRow(reloaded[k]) =
         addStats(statsOfRow(reloadedWithout(i)[k]), shareOf(dbMatches[i], dbPairs[k].id))

\* The i-th match changes no row.
matchIgnored(i) == reloaded = reloadedWithout(i)

indexOfMatch(mid) == CHOOSE i \in DOMAIN dbMatches : dbMatches[i].id = mid

hasGameAndPairs(i) ==
  /\ Len(matchGamesOf(reloadedGames, dbMatches[i])) > 0
  /\ {dbMatches[i].pair1_id, dbMatches[i].pair2_id} \subseteq pairIds(dbPairs)

\* C1 as stated: a match is counted iff its status is finished; it is counted
\* after finishMatch went through and not counted after reopenMatch did.
C1_CountedIffFinishedAsStated ==
  /\ \A i \in DOMAIN dbMatches :
       matchCounted(i) <=> dbMatches[i].status = "finished"
  /\ (lastOp(hist) = "finish" => matchCounted(indexOfMatch(hist.match)))
  /\ (lastOp(hist) = "reopen" => ~matchCounted(indexOfMatch(hist.match)))

\* C1, amended: a match is counted iff it is finished, has at least one game
\* and both its pairs are in the pair set, and changes no row otherwise; after
\* finishMatch went through it is finished and counted iff it has a game and
\* both pairs are known; after reopenMatch went through it changes no row.
C1_CountedIffFinishedWithGames ==
  /\ \A i \in DOMAIN dbMatches :
       IF dbMatches[i].status = "finished" /\ hasGameAndPairs(i)
       THEN matchCounted(i) /\ ~matchIgnored(i)
       ELSE matchIgnored(i)
  /\ (lastOp(hist) = "finish" =>
        /\ statusOf(dbMatches, hist.match) = "finished"
        /\ (matchCounted(indexOfMatch(hist.match)) /\ ~matchIgnored(indexOfMatch(hist.match))
              <=> hasGameAndPairs(indexOfMatch(hist.match))))
  /\ (lastOp(hist) = "reopen" =>
        /\ statusOf(dbMatches, hist.match) = "in_progress"
        /\ matchIgnored(indexOfMatch(hist.match)))

\* finishMatch has just gone through on a match with a game, and the other
\* match is in progress with a game of its own.
C1_Witness ==
  /\ lastOp(hist) = "finish"
  /\ hasGameAndPairs(indexOfMatch(hist.match))
  /\ \E i \in DOMAIN dbMatches :
       /\ dbMatches[i].status = "in_progress"
       /\ Len(matchGamesOf(reloadedGames, dbMatches[i])) > 0

\* ---------------------------------------------------------------- C2
\* The sum of matchesPlayed over the rows of the two pairs of match m.
pairSum(rows, m) ==
  SumSeq([k \in DOMAIN rows |->
            IF rows[k].id \in {m.pair1_id, m.pair2_id} THEN rows[k].matchesPlayed ELSE 0])

\* The same sum for the i-th match in the standings recomputed from the data.
pairSumOf(pairTable, matchTable, gamesTable, i) ==
  pairSum(standingsOf(pairTable, matchTable, gamesTable), matchTable[i])

\* The i-th match goes from one status to the other, all other data unchanged.
statusStep(i, from, to) ==
  /\ dbMatches[i].status = from
  /\ dbMatches' = [dbMatches EXCEPT ![i].status = to]
  /\ UNCHANGED <<dbPairs, dbGames>>

\* C2 as stated: finishing a match raises the sum of matchesPlayed of its two
\* pairs by exactly 2, reopening it lowers the sum by exactly 2.
C2_SumChangesByTwoAsStated ==
  [][\A i \in DOMAIN dbMatches :
       /\ statusStep(i, "in_progress", "finished")
            => pairSumOf(dbPairs', dbMatches', dbGames', i) = pairSumOf(dbPairs, dbMatches, dbGames, i) + 2
       /\ statusStep(i, "finished", "in_progress")
            => pairSumOf(dbPairs', dbMatches', dbGames', i) = pairSumOf(dbPairs, dbMatches, dbGames, i) - 2]_vars

\* C2, amended: by exactly 2 when the match has at least one game and both
\* its pairs are in the pair set, and by 0 otherwise.
C2_SumChangesByTwoWithGames ==
  [][\A i \in DOMAIN dbMatches :
       LET d == IF hasGameAndPairs(i) THEN 2 ELSE 0
       IN /\ statusStep(i, "in_progress", "finished")
               => pairSumOf(dbPairs', dbMatches', dbGames', i) = pairSumOf(dbPairs, dbMatches, dbGames, i) + d
          /\ statusStep(i, "finished", "in_progress")
               => pairSumOf(dbPairs', dbMatches', dbGames', i) = pairSumOf(dbPairs, dbMatches, dbGames, i) - d]_vars

\* A match with a game was finished and then reopened, with two standings
\* that differ.
C2_Witness ==
  /\ hist.based
  /\ Len(hist.ops) >= 2
  /\ hist.ops[1] = "finish"
  /\ hist.ops[2] = "reopen"
  /\ hist.pre # hist.post
  /\ hasGameAndPairs(indexOfMatch(hist.match))

\* ---------------------------------------------------------------- C3
\* C3: in a run of finishMatch / reopenMatch calls on one match that begins
\* by finishing it, with the games unchanged, the standings after every
\* reopen are those before the first finish, and the standings after every
\* finish are those after the first finish.
C3_FinishReopenReversible ==
  hist.based =>
    /\ (lastOp(hist) = "reopen" => reloaded = hist.pre)
    /\ (lastOp(hist) = "finish" => reloaded = hist.post)

\* finish, reopen, finish went through on a match that counts.
C3_Witness ==
  /\ hist.based
  /\ hist.ops = <<"finish", "reopen", "finish">>
  /\ hist.pre # hist.post
  /\ reloaded = hist.post

\* ---------------------------------------------------------------- C11
\* C11: permuting the games of a match, the flattened allGames list or the
\* matches list leaves every pair's statistics and the ranking unchanged.
C11_OrderIndependent ==
  /\ \A f \in Permutations(DOMAIN allGames), g \in Permutations(DOMAIN matches) :
       LET rows == pairsWithStats(pairs, permuted(matches, g), permuted(allGames, f))
       IN /\ rows = tableStandings
          /\ sortedPairs(rows) = tableRanking
  /\ \A i \in DOMAIN matches :
       LET gs == matchGamesOf(allGames, matches[i])
       IN \A h \in Permutations(DOMAIN gs) :
            calculateMatchStats(matches[i], permuted(gs, h))
              = calculateMatchStats(matches[i], gs)

\* Both matches are finished and loaded, the first with two games of
\* different scores, the second with one game.
C11_Witness ==
  /\ Len(matches) = 2
  /\ \A i \in DOMAIN matches : matches[i].status = "finished"
  /\ Len(allGames) = 3
  /\ allGames[1].match_id = "m1"
  /\ allGames[2].match_id = "m1"
  /\ allGames[1].pair1_games # allGames[2].pair1_games
  /\ ~allGames[1].is_tie_break
  /\ ~allGames[2].is_tie_break
  /\ allGames[3].match_id = "m2"
  /\ rowOf(tableStandings, "P1").matchesPlayed = 2

\* ---------------------------------------------------------------- C12
\* Run k ends in this step with a failed fetch.
loadFails(k) ==
  /\ inFlight(runs[k])
  /\ Len(runs') = Len(runs)
  /\ runs'[k].pc = "failed"

\* C12: when a run of loadTournamentData ends with a failed fetch, pairs,
\* matches and allGames are what they were when the run started.
C12_FailClosedReload ==
  [][\A k \in DOMAIN runs :
       loadFails(k) => <<pairs', matches', allGames'>> = runs[k].before]_vars

\* ---------------------------------------------------------------- C13
\* Two or more runs have overlapped and all of them have completed.
overlapCompleted ==
  /\ Len(runs) >= 2
  /\ \A k \in DOMAIN runs : runs[k].pc = "done"

\* C13: when overlapping runs have all completed, the table holds what the
\* most recently triggered run fetched.
C13_LastTriggerWins ==
  overlapCompleted =>
    /\ pairs = runs[Len(runs)].pairsData
    /\ matches = runs[Len(runs)].matchesData
    /\ allGames = runs[Len(runs)].gamesData

\* ---------------------------------------------------------------- C14
\* C14: whenever loading is false, pairs and matches were set by the same
\* run of loadTournamentData as allGames.
C14_RenderedFromOneLoad ==
  ~loading => shown.pm = shown.g

\* ---------------------------------------------------------------- C15
\* A card handler's persistence call has gone through in this step.
mutationPersisted == dbGames' # dbGames \/ dbMatches' # dbMatches

\* C15: a mutation that is persisted calls onCorrectScore once: the call is
\* made in the handler and no further call is scheduled.
C15_RefreshExactlyOnce ==
  [][mutationPersisted => (effectPending' /\ timers' = timers)]_vars

\* ---------------------------------------------------------------- C16
\* C16: after every mutation that is persisted a call of onCorrectScore is
\* still to come: the handler has called it and scheduled the delayed calls,
\* or delayed calls of an earlier mutation are pending.
C16_RefreshAfterEveryMutation ==
  [][mutationPersisted => timers' > 0]_vars

\* ---------------------------------------------------------------- C17
\* finishMatch of the card of mid runs in this step and ends with outcome o.
finishMatchStep(mid, o) ==
  \E lo \in LoadOutcomes, fo \in BOOLEAN : finishMatchEnds(mid, o, lo, fo)

\* C17: a match becomes finished only in a step of finishMatch in which
\* accumulateMatchStatistics reported success; a finishMatch in which it
\* reports failure or throws leaves the stored matches as they are, sets an
\* error on the card and triggers no refresh; a match goes back to
\* in_progress only in a step of reopenMatch.
C17_FinishOnlyAfterAccumulation ==
  [][\A i \in DOMAIN dbMatches :
       LET mid == dbMatches[i].id
       IN /\ (dbMatches[i].status = "in_progress" /\ dbMatches'[i].status = "finished")
               => finishMatchStep(mid, "ok")
          /\ (finishMatchStep(mid, "accumulateFails") \/ finishMatchStep(mid, "accumulateThrows"))
               => /\ dbMatches' = dbMatches
                  /\ cards'[mid].error # ""
                  /\ UNCHANGED <<effectPending, timers>>
          /\ (dbMatches[i].status = "finished" /\ dbMatches'[i].status = "in_progress")
               => ReopenMatch(mid)]_vars

\* accumulateMatchStatistics has reported a failure for a match in progress
\* while the other match was finished.
C17_Witness ==
  \E mid \in MatchIds :
    /\ cards[mid].error = "Error: message"
    /\ statusOf(dbMatches, mid) = "in_progress"
    /\ \E other \in MatchIds : statusOf(dbMatches, other) = "finished"

\* ---------------------------------------------------------------- C18
\* C18: every stored game has both its game counts within 0..7.
C18_StoredScoresInRange ==
  \A i \in DOMAIN dbGames :
    /\ dbGames[i].pair1_games \in 0..7
    /\ dbGames[i].pair2_games \in 0..7

\* ---------------------------------------------------------------- C19
\* The table's standings computed without its i-th match.
tableStandingsWithout(i) ==
  pairsWithStats(pairs,
                 SubSeq(matches, 1, i - 1) \o SubSeq(matches, i + 1, Len(matches)),
                 allGames)

finishedWithoutGames(i) ==
  /\ matches[i].status = "finished"
  /\ Len(matchGamesOf(allGames, matches[i])) = 0

\* C19: a finished match without games changes no statistic of any pair:
\* the standings are those computed without it.
C19_FinishedWithoutGamesIgnored ==
  \A i \in DOMAIN matches :
    finishedWithoutGames(i) => tableStandings = tableStandingsWithout(i)

\* A finished match without games whose pairs are both known is loaded next
\* to a finished match with a game that is counted.
C19_Witness ==
  \E i \in DOMAIN matches, j \in DOMAIN matches :
    /\ finishedWithoutGames(i)
    /\ {matches[i].pair1_id, matches[i].pair2_id} \subseteq pairIds(pairs)
    /\ matches[j].status = "finished"
    /\ Len(matchGamesOf(allGames, matches[j])) > 0
    /\ matches[j].pair1_id \in pairIds(pairs)
    /\ rowOf(tableStandings, matches[j].pair1_id).matchesPlayed = 1

\* ---------------------------------------------------------------- C20
missingPair(i) ==
  /\ matches[i].status = "finished"
  /\ ~({matches[i].pair1_id, matches[i].pair2_id} \subseteq pairIds(pairs))

\* C20: a finished match one of whose pairs is not in the pair array changes
\* no statistic of any pair, its present pair included; the standings have
\* the rows of the pair array and no other, and are those computed from the
\* other matches.
C20_MissingPairSkipsMatch ==
  \A i \in DOMAIN matches :
    missingPair(i) =>
      /\ tableStandings = tableStandingsWithout(i)
      /\ idsOf(tableStandings) = idsOf(pairs)

\* The match P3 vs P1 is finished with a game and P3 is not in the pair
\* array, while P1 vs P2 is finished with a game and counted.
C20_Witness ==
  \E i \in DOMAIN matches, j \in DOMAIN matches :
    /\ missingPair(i)
    /\ Len(matchGamesOf(allGames, matches[i])) > 0
    /\ matches[i].pair2_id \in pairIds(pairs)
    /\ matches[j].status = "finished"
    /\ Len(matchGamesOf(allGames, matches[j])) > 0
    /\ rowOf(tableStandings, matches[i].pair2_id).matchesPlayed = 1

\* ---------------------------------------------------------------- C25
\* What the matches the table holds put into the standings: 1 for a counted
\* match, its number of games, and the points of both sides over its games.
countedOnes == [i \in DOMAIN matches |-> IF countedMatch(matches[i]) THEN 1 ELSE 0]

countedGames ==
  [i \in DOMAIN matches |->
     IF countedMatch(matches[i]) THEN Len(matchGamesOf(allGames, matches[i])) ELSE 0]

countedPoints ==
  [i \in DOMAIN matches |->
     IF countedMatch(matches[i])
     THEN LET gs == matchGamesOf(allGames, matches[i])
          IN SumSeq([k \in DOMAIN gs |-> pointsOfGame(gs[k], 1) + pointsOfGame(gs[k], 2)])
     ELSE 0]

pointsColumn(rows) == [k \in DOMAIN rows |-> rows[k].points]
gamesWonColumn(rows) == [k \in DOMAIN rows |-> rows[k].gamesWon]
matchesPlayedColumn(rows) == [k \in DOMAIN rows |-> rows[k].matchesPlayed]

\* C25: in the standings the table computes, the points of all pairs add up
\* to the points of both sides over the games of the counted matches, the
\* games won of all pairs to at most the number of those games, and the
\* matches played of all pairs to twice the number of counted matches.
C25_StandingsConserve ==
  /\ SumSeq(pointsColumn(tableStandings)) = SumSeq(countedPoints)
  /\ SumSeq(gamesWonColumn(tableStandings)) <= SumSeq(countedGames)
  /\ SumSeq(matchesPlayedColumn(tableStandings)) = 2 * SumSeq(countedOnes)

\* Both matches of the table are counted, one of them with a game nobody won.
C25_Witness ==
  /\ SumSeq(countedOnes) = 2
  /\ SumSeq(countedGames) = 2
  /\ SumSeq(gamesWonColumn(tableStandings)) = 1
  /\ SumSeq(matchesPlayedColumn(tableStandings)) = 4
  /\ SumSeq(pointsColumn(tableStandings)) > 12

\* ---------------------------------------------------------------- C24
\* A run of addGame on the card of match mid that ends in its catch block.
addGameFailed(mid) ==
  /\ AddGame(mid)
  /\ cards'[mid].error = "Error al agregar juego"

\* C24: whenever addGame ends by setting the error "Error al agregar juego",
\* the games stored for the match are the same as before the call.
C24_AddGameAllOrNothing ==
  [][\A mid \in MatchIds :
       addGameFailed(mid) => getGames(dbGames', mid) = getGames(dbGames, mid)]_vars

\* ---------------------------------------------------------------- C23
\* C23: the games stored for a match have pairwise distinct game numbers.
C23_GameNumbersDistinct ==
  \A mid \in MatchIds :
    LET gs == getGames(dbGames, mid)
    IN \A i \in DOMAIN gs, j \in DOMAIN gs :
         i # j => gs[i].game_number # gs[j].game_number

\* ---------------------------------------------------------------- C21
\* The runs of the handlers of the card of match mid that are in flight.
inFlightOn(mid) == {k \in DOMAIN calls : calls[k].card = mid}

\* C21: while a run of a mutation handler of a card is in flight, the card's
\* loading flag is true, and no second run is in flight on the same card.
C21_LoadingWhileInFlight ==
  \A mid \in MatchIds :
    /\ inFlightOn(mid) # {} => cardLoading[mid]
    /\ Cardinality(inFlightOn(mid)) <= 1

\* ---------------------------------------------------------------- C22
\* C22: the snapshot onCorrectScore got last is the freshest it has got:
\* none requested after a later mutation was delivered before it.
C22_SnapshotsInOrderOfFreshness ==
  delivered.last.after >= delivered.newest.after

====
